---- MODULE Spec2Model ----
(***************************************************************************)
(* Universal Yoga mobile client: the cart cache (CartContext.tsx), the     *)
(* cart checkout loop (cart.tsx), the users-collection login, signup and   *)
(* logout (AuthContext.tsx), the class list of the course-details screen   *)
(* (course-details.tsx) and the load actions of the list screens, over the *)
(* bookings collection written by createBooking (firebaseService.ts).      *)
(***************************************************************************)
EXTENDS Integers, Sequences, FiniteSets, TLC

\* ---------------------------------------------------------------- bounds
NumClasses == 3
MaxTime == 1
MaxCart == 2
MaxPending == 2
MaxBookings == 2
MaxUsers == 2
MaxCapacity == 2
MaxInflight == 3
MaxPreBookings == 1
MaxList == 2
MaxLoads == 2
MaxRedirects == 2

\* (courseInfo?.capacity || 20)
DefaultCapacity == 20

ClassIds == 1..NumClasses
Times == 1..MaxTime

Null == [null |-> TRUE]

\* ------------------------------------------------------------ class data
\* Two class instances per course; a class carries its course's name.
CourseOf(c) == (c + 1) \div 2

CourseName(k) == [course |-> k]

ClassData(c) == [id |-> c, courseId |-> CourseOf(c), courseName |-> CourseName(CourseOf(c))]

\* The logged-in customer of the cart and class-list specifications.
Customer == [id |-> 1, email |-> "a@x", role |-> "user", password |-> "p1"]

Range(s) == {s[i] : i \in DOMAIN s}

Ids(items) == {items[i].id : i \in DOMAIN items}

\* ------------------------------------------------------------- variables
VARIABLES
  cartItems,       \* CartProvider state: the latest cart list
  renderedCart,    \* the cartItems the closures of the last render captured
  cartDirty,       \* setCartItems was called since the last render
  storageUp,       \* local storage answers; when it does not, every call rejects
  cartSlot,        \* local storage slot 'yoga_cart_items'
  pendingSaves,    \* setItem calls of the save effect not yet completed
  loadPc,          \* loadCartFromStorage: "pending", "read", "done", "failed"
  loadValue,       \* what getItem returned
  savedAtStart,    \* the cart slot as it was when the app started
  lastCall,        \* the last cart operation called since the app started
  checkoutLoading, \* CartScreen state
  ckItems,         \* the cartItems processCheckout captured
  ckUser,          \* the user processCheckout captured
  ckIdx,           \* position of the for loop
  ckResults,       \* outcome of each createBooking of the loop so far
  successCount,
  failedBookings,
  ckReport,        \* the alert shown when the checkout ended
  bookingsAtStart, \* size of the bookings collection when the checkout started
  lostWrites,      \* the bookings of the loop that were written while the call rejected
  bookings,        \* the 'bookings' collection
  user,            \* AuthProvider state: the session user
  authLoading,     \* AuthProvider state: loading
  users,           \* the 'users' collection
  sessionSlot,     \* local storage slot 'userData'
  sessionPc,       \* checkUserSession: "pending", "done"
  loginPc,         \* login: "idle", "query" (getDocs), "store" (setItem)
  loginArgs,       \* the email and password login was called with
  loginResult,     \* how the last login call ended: "none", "ok" or the error message
  logoutPc,        \* logout: "idle", "remove" (removeItem)
  signupPc,        \* signup: "idle", "query" (getDocs), "add" (addDoc), "store" (setItem)
  signupArgs,      \* the email and password signup was called with, then the new user
  signupResult,    \* how the last signup call ended: "none", "ok" or the error message
  authDone,        \* the last auth call that completed without error, or the restart after it
  peerPc,          \* signup called on a second device: "idle", "query" (getDocs), "add" (addDoc)
  peerArgs,        \* the email and password that signup was called with
  identityPc,      \* identity-service variant: "off", "waiting", "profile", "done", "failed"
  identityUser,    \* the firebaseUser the onAuthStateChanged callback was called with
  route,           \* the screen the router shows: "none", "/auth" (Index), "/" (DashboardHome)
  redirects,       \* router.replace calls of the two auth guards since the app started
  course,          \* CourseDetailsScreen: the course parsed from the params
  detailsPc,       \* loadCourseDetails: "loading", "loaded", "failed"
  classes,         \* CourseDetailsScreen state: the class list
  bookingLoading,  \* CourseDetailsScreen state: id of the class being booked
  alertClass,      \* the class item of the open 'Confirm Booking' alert
  inflight,        \* the class items of the createBooking calls in flight
  listScreen,      \* the list screen that is open: "courses", "classes", "bookings"
  shownList,       \* list screen state: the list it shows
  listLoading,     \* list screen state: loading
  listRefreshing,  \* list screen state: refreshing
  listLoads,       \* calls of the screen's load action waiting for the backend
  listAlert,       \* the alert the list screen shows
  listOutcome      \* how the last load action ended: "none", "set", "alerted", "thrown"

cartVars == <<cartItems, renderedCart, cartDirty, lastCall>>
storeVars == <<storageUp, cartSlot, pendingSaves, loadPc, loadValue, savedAtStart>>
ckVars == <<checkoutLoading, ckItems, ckUser, ckIdx, ckResults, successCount,
            failedBookings, ckReport, bookingsAtStart, lostWrites>>
signupVars == <<signupPc, signupArgs, signupResult>>
peerVars == <<peerPc, peerArgs>>
identityVars == <<identityPc, identityUser>>
navVars == <<route, redirects>>
authVars == <<authLoading, users, sessionSlot, sessionPc, loginPc, loginArgs, loginResult,
              logoutPc, signupVars, authDone, peerVars, identityVars, navVars>>
listVars == <<listScreen, shownList, listLoading, listRefreshing, listLoads, listAlert,
              listOutcome>>
seatVars == <<course, detailsPc, classes, bookingLoading, alertClass, inflight>>
vars == <<cartVars, storeVars, ckVars, bookings, user, authVars, seatVars, listVars>>

\* ------------------------------------------------------- JSON conversion
\* JSON.stringify turns the Date of addedAt into an ISO string.
Stringify(items) ==
  [json |-> [i \in DOMAIN items |->
      [id |-> items[i].id, classData |-> items[i].classData,
       addedAt |-> [iso |-> items[i].addedAt.date]]]]

\* JSON.parse, then addedAt: new Date(item.addedAt).
ParseCart_IndexAsId(stored) ==
  [i \in DOMAIN stored.json |->
      [id |-> NumClasses + i, classData |-> stored.json[i].classData,
       addedAt |-> [date |-> stored.json[i].addedAt.iso]]]

ParseCart(stored) ==
  [i \in DOMAIN stored.json |->
      [id |-> stored.json[i].id, classData |-> stored.json[i].classData,
       addedAt |-> [date |-> stored.json[i].addedAt.iso]]]

\* ------------------------------------------------------------ cart cache
IsInCart_NeverFound(items, classId) == FALSE

isInCart(items, classId) == \E i \in DOMAIN items : items[i].id = classId

NewCartItem(c, t) == [id |-> c, classData |-> ClassData(c), addedAt |-> [date |-> t]]

RemoveFromList_KeepOnlyId(items, classId) ==
  LET Keep(x) == x.id = classId IN SelectSeq(items, Keep)

RemoveFromList(items, classId) ==
  LET Keep(x) == x.id # classId IN SelectSeq(items, Keep)

RECURSIVE RemoveEach(_, _)
RemoveEach(items, ids) ==
  IF ids = <<>> THEN items
  ELSE RemoveEach(RemoveFromList(items, Head(ids)), Tail(ids))

\* addToCart reads the rendered list and appends to the latest one.
AddToCart(c, t) ==
  /\ Len(cartItems) < MaxCart
  /\ lastCall' = [op |-> "addToCart", id |-> c, found |-> isInCart(renderedCart, c)]
  /\ IF isInCart(renderedCart, c)
       THEN UNCHANGED <<cartItems, cartDirty>>
       ELSE /\ cartItems' = Append(cartItems, NewCartItem(c, t))
            /\ cartDirty' = TRUE
  /\ UNCHANGED <<renderedCart, storeVars, ckVars, bookings, user, authVars, seatVars, listVars>>

RemoveFromCart(c) ==
  /\ lastCall' = [op |-> "removeFromCart", id |-> c, found |-> FALSE]
  /\ cartItems' = RemoveFromList(cartItems, c)
  /\ cartDirty' = TRUE
  /\ UNCHANGED <<renderedCart, storeVars, ckVars, bookings, user, authVars, seatVars, listVars>>

ClearCart ==
  /\ lastCall' = [op |-> "clearCart", id |-> 0, found |-> FALSE]
  /\ cartItems' = <<>>
  /\ cartDirty' = TRUE
  /\ UNCHANGED <<renderedCart, storeVars, ckVars, bookings, user, authVars, seatVars, listVars>>

\* A render commits the latest list to the closures; the save effect then
\* issues setItem with the rendered list.
RenderCart ==
  /\ cartDirty
  /\ \/ ~storageUp
     \/ Stringify(cartItems) \in pendingSaves
     \/ Cardinality(pendingSaves) < MaxPending
  /\ renderedCart' = cartItems
  /\ cartDirty' = FALSE
  /\ pendingSaves' = IF storageUp THEN pendingSaves \cup {Stringify(cartItems)}
                                  ELSE pendingSaves
  /\ UNCHANGED <<cartItems, lastCall, storageUp, cartSlot, loadPc, loadValue, savedAtStart,
                 ckVars, bookings, user, authVars, seatVars, listVars>>

SaveComplete(w) ==
  /\ w \in pendingSaves
  /\ cartSlot' = w
  /\ pendingSaves' = pendingSaves \ {w}
  /\ UNCHANGED <<cartVars, storageUp, loadPc, loadValue, savedAtStart, ckVars, bookings, user, authVars, seatVars, listVars>>

SaveError(w) ==
  /\ w \in pendingSaves
  /\ pendingSaves' = pendingSaves \ {w}
  /\ UNCHANGED <<cartVars, storageUp, cartSlot, loadPc, loadValue, savedAtStart, ckVars,
                 bookings, user, authVars, seatVars, listVars>>

\* getItem reads the slot.
LoadRead ==
  /\ loadPc = "pending"
  /\ loadPc' = "read"
  /\ loadValue' = cartSlot
  /\ UNCHANGED <<cartVars, storageUp, cartSlot, pendingSaves, savedAtStart, ckVars,
                 bookings, user, authVars, seatVars, listVars>>

\* The continuation of loadCartFromStorage: a stored string replaces the list.
LoadApply ==
  /\ loadPc = "read"
  /\ loadPc' = "done"
  /\ IF loadValue # Null
       THEN /\ cartItems' = ParseCart(loadValue)
            /\ cartDirty' = TRUE
       ELSE UNCHANGED <<cartItems, cartDirty>>
  /\ loadValue' = Null
  /\ UNCHANGED <<renderedCart, lastCall, storageUp, cartSlot, pendingSaves, savedAtStart,
                 ckVars, bookings, user, authVars, seatVars, listVars>>

LoadError ==
  /\ loadPc = "pending"
  /\ loadPc' = "failed"
  /\ UNCHANGED <<cartVars, storageUp, cartSlot, pendingSaves, loadValue, savedAtStart,
                 ckVars, bookings, user, authVars, seatVars, listVars>>

\* -------------------------------------------------------------- bookings
\* The document createBooking writes.
BookingDoc(customer, classData) ==
  [customerId |-> customer.id, courseId |-> classData.courseId,
   courseName |-> classData.courseName, classId |-> classData.id,
   status |-> "confirmed"]

\* addDoc(collection(db, 'bookings'), bookingData)
AddBooking_CancelPrevious(coll, customer, classData) ==
  Append([i \in DOMAIN coll |->
            IF coll[i].customerId = customer.id /\ coll[i].classId = classData.id
              THEN [coll[i] EXCEPT !.status = "cancelled"]
              ELSE coll[i]],
         BookingDoc(customer, classData))

AddBooking_OncePerCustomer(coll, customer, classData) ==
  IF \E i \in DOMAIN coll :
       coll[i].customerId = customer.id /\ coll[i].classId = classData.id
    THEN coll
    ELSE Append(coll, BookingDoc(customer, classData))

AddBooking(coll, customer, classData) == Append(coll, BookingDoc(customer, classData))

\* addDoc resolves ("ok"), rejects with nothing written ("fail"), or rejects
\* although the backend has written the document ("lost": the response did not
\* arrive); the collection is capped.
Outcomes(coll) == IF Len(coll) < MaxBookings THEN {"ok", "fail", "lost"} ELSE {"fail"}

\* Whether the document is in the collection after the call.
Written(outcome) == outcome \in {"ok", "lost"}

\* -------------------------------------------------------- cart checkout
NextIndex_StopOnFailure(idx, n, outcome) == IF outcome = "fail" THEN n + 1 ELSE idx + 1

\* The for loop goes on to the next item whatever the outcome was.
NextIndex(idx, n, outcome) == idx + 1

\* The items the 'Partial Success' branch hands to removeFromCart.
SuccessfullyBookedItems(items, failed) ==
  LET NotFailed(x) == x.classData.courseName \notin Range(failed)
  IN SelectSeq(items, NotFailed)

ItemIds(items) == [i \in DOMAIN items |-> items[i].id]

CartAfterCheckout_ClearOnAnySuccess(cart, items, succeeded, failed) ==
  IF succeeded > 0 THEN <<>> ELSE cart

\* The cart list after the results branch of processCheckout.
CartAfterCheckout(cart, items, succeeded, failed) ==
  IF succeeded = Len(items) THEN <<>>
  ELSE IF succeeded > 0
    THEN RemoveEach(cart, ItemIds(SuccessfullyBookedItems(items, failed)))
    ELSE cart

\* Whether the results branch calls setCartItems at all.
CheckoutTouchesCart(items, succeeded, failed) ==
  \/ succeeded = Len(items)
  \/ succeeded > 0 /\ SuccessfullyBookedItems(items, failed) # <<>>

CheckoutReport_SuccessOnAny(items, succeeded) ==
  IF succeeded > 0 THEN "Success" ELSE "Booking Failed"

CheckoutReport(items, succeeded) ==
  IF succeeded = Len(items) THEN "Success"
  ELSE IF succeeded > 0 THEN "Partial Success" ELSE "Booking Failed"

CheckoutButtonDisabled_Never(loading) == FALSE

\* disabled={checkoutLoading}
CheckoutButtonDisabled(loading) == loading

\* handleCheckout, the 'Book All' answer and processCheckout up to the first
\* createBooking call.
CheckoutStart ==
  /\ user # Null
  /\ renderedCart # <<>>
  /\ ~CheckoutButtonDisabled(checkoutLoading)
  /\ checkoutLoading' = TRUE
  /\ ckItems' = renderedCart
  /\ ckUser' = user
  /\ ckIdx' = 1
  /\ ckResults' = <<>>
  /\ successCount' = 0
  /\ failedBookings' = <<>>
  /\ ckReport' = "none"
  /\ bookingsAtStart' = Len(bookings)
  /\ lastCall' = [op |-> "checkout", id |-> 0, found |-> FALSE]
  /\ UNCHANGED <<cartItems, renderedCart, cartDirty, lostWrites, storeVars, bookings, user,
                 authVars, seatVars, listVars>>

\* handleCheckout returns at one of its two guards: an alert, no checkout.
CheckoutRefused ==
  /\ ~CheckoutButtonDisabled(checkoutLoading)
  /\ user = Null \/ renderedCart = <<>>
  /\ ckReport' = IF user = Null THEN "Login Required" ELSE "Empty Cart"
  /\ lastCall' = [op |-> "checkout", id |-> 0, found |-> FALSE]
  /\ UNCHANGED <<cartItems, renderedCart, cartDirty, checkoutLoading, ckItems, ckUser, ckIdx,
                 ckResults, successCount, failedBookings, bookingsAtStart, lostWrites,
                 storeVars, bookings, user, authVars, seatVars, listVars>>

\* One createBooking of the loop settles; after the last one the results
\* branch and the finally block run in the same continuation.
CheckoutAttempt(outcome) ==
  /\ ckIdx >= 1
  /\ outcome \in Outcomes(bookings)
  /\ LET item == ckItems[ckIdx]
         n == Len(ckItems)
         succ == IF outcome = "ok" THEN successCount + 1 ELSE successCount
         failed == IF outcome = "ok" THEN failedBookings
                   ELSE Append(failedBookings, item.classData.courseName)
         nxt == NextIndex(ckIdx, n, outcome)
     IN /\ ckResults' = Append(ckResults, outcome)
        /\ successCount' = succ
        /\ failedBookings' = failed
        /\ bookings' = IF Written(outcome)
                         THEN AddBooking(bookings, ckUser, item.classData)
                         ELSE bookings
        /\ lostWrites' = IF outcome = "lost"
                           THEN lostWrites \cup {BookingDoc(ckUser, item.classData)}
                           ELSE lostWrites
        /\ IF nxt <= n
             THEN /\ ckIdx' = nxt
                  /\ UNCHANGED <<cartItems, cartDirty, checkoutLoading, ckReport>>
             ELSE /\ ckIdx' = 0
                  /\ cartItems' = CartAfterCheckout(cartItems, ckItems, succ, failed)
                  /\ cartDirty' = (cartDirty \/ CheckoutTouchesCart(ckItems, succ, failed))
                  /\ ckReport' = CheckoutReport(ckItems, succ)
                  /\ checkoutLoading' = FALSE
  /\ UNCHANGED <<renderedCart, lastCall, storeVars, ckItems, ckUser, bookingsAtStart, user, authVars, seatVars, listVars>>

\* ------------------------------------------- auth (users collection)
Emails == {"a@x", "b@x"}
Passwords == {"p1", "p2"}
Roles == {"user", "admin"}

\* JSON.stringify(userDataWithId) and JSON.parse(userData)
StringifyUser_WithoutId(u) == [json |-> [u EXCEPT !.id = 0]]

StringifyUser(u) == [json |-> u]

ParseUser(stored) == stored.json

\* where('email', '==', email), where('role', '==', 'user')
FindUsers(coll, email) ==
  LET Hit(d) == d.email = email /\ d.role = "user" IN SelectSeq(coll, Hit)

PasswordMatches_Always(stored, supplied) == TRUE

\* userData.password !== password
PasswordMatches(stored, supplied) == stored = supplied

authRest == <<cartVars, storeVars, ckVars, bookings, seatVars, listVars, peerVars,
              identityVars, navVars>>

\* What the session check, login and logout leave alone.
loginRest == <<signupVars, authRest>>

\* checkUserSession: getItem('userData') resolves.
SessionCheck ==
  /\ sessionPc = "pending"
  /\ sessionPc' = "done"
  /\ user' = IF sessionSlot # Null THEN ParseUser(sessionSlot) ELSE user
  /\ authLoading' = FALSE
  /\ UNCHANGED <<users, sessionSlot, loginPc, loginArgs, loginResult, logoutPc, authDone, loginRest>>

\* checkUserSession: getItem rejects; the error is logged.
SessionCheckError ==
  /\ sessionPc = "pending"
  /\ sessionPc' = "done"
  /\ authLoading' = FALSE
  /\ UNCHANGED <<user, users, sessionSlot, loginPc, loginArgs, loginResult, logoutPc,
                 authDone, loginRest>>

\* login(email, password) up to the getDocs call.
LoginStart(email, password) ==
  /\ loginPc = "idle"
  /\ loginPc' = "query"
  /\ loginArgs' = [email |-> email, password |-> password]
  /\ loginResult' = "none"
  /\ UNCHANGED <<user, authLoading, users, sessionSlot, sessionPc, logoutPc, authDone, loginRest>>

\* getDocs resolves: the empty check, the password check of docs[0], then
\* setUser and the setItem call.
LoginQueryReturn ==
  /\ loginPc = "query"
  /\ LET found == FindUsers(users, loginArgs.email)
     IN IF found = <<>>
          THEN /\ loginPc' = "idle"
               /\ loginResult' = "User not found or invalid credentials"
               /\ UNCHANGED user
        ELSE IF ~PasswordMatches(Head(found).password, loginArgs.password)
          THEN /\ loginPc' = "idle"
               /\ loginResult' = "Invalid credentials"
               /\ UNCHANGED user
          ELSE /\ loginPc' = "store"
               /\ user' = Head(found)
               /\ UNCHANGED loginResult
  /\ UNCHANGED <<authLoading, users, sessionSlot, sessionPc, loginArgs, logoutPc, authDone, loginRest>>

\* getDocs rejects.
LoginQueryError ==
  /\ loginPc = "query"
  /\ loginPc' = "idle"
  /\ loginResult' = "getDocs rejected"
  /\ UNCHANGED <<user, authLoading, users, sessionSlot, sessionPc, loginArgs, logoutPc,
                 authDone, loginRest>>

\* setItem('userData', ...) resolves.
LoginStored ==
  /\ loginPc = "store"
  /\ loginPc' = "idle"
  /\ loginResult' = "ok"
  /\ sessionSlot' = StringifyUser(Head(FindUsers(users, loginArgs.email)))
  /\ authDone' = [op |-> "login", user |-> Head(FindUsers(users, loginArgs.email))]
  /\ UNCHANGED <<user, authLoading, users, sessionPc, loginArgs, logoutPc, loginRest>>

\* setItem rejects: login rethrows, after setUser.
LoginStoreError ==
  /\ loginPc = "store"
  /\ loginPc' = "idle"
  /\ loginResult' = "setItem rejected"
  /\ UNCHANGED <<user, authLoading, users, sessionSlot, sessionPc, loginArgs, logoutPc,
                 authDone, loginRest>>

\* logout up to the removeItem call.
LogoutStart ==
  /\ logoutPc = "idle"
  /\ logoutPc' = "remove"
  /\ user' = Null
  /\ UNCHANGED <<authLoading, users, sessionSlot, sessionPc, loginPc, loginArgs,
                 loginResult, authDone, loginRest>>

\* removeItem('userData') resolves.
LogoutRemoved ==
  /\ logoutPc = "remove"
  /\ logoutPc' = "idle"
  /\ sessionSlot' = Null
  /\ authDone' = [op |-> "logout"]
  /\ UNCHANGED <<user, authLoading, users, sessionPc, loginPc, loginArgs, loginResult,
                 loginRest>>

\* removeItem rejects: logout rethrows.
LogoutError ==
  /\ logoutPc = "remove"
  /\ logoutPc' = "idle"
  /\ UNCHANGED <<user, authLoading, users, sessionSlot, sessionPc, loginPc, loginArgs,
                 loginResult, authDone, loginRest>>

\* --------------------------------------------------------------- signup
signupRest == <<authLoading, sessionPc, loginPc, loginArgs, loginResult, logoutPc, authRest>>

\* where('email', '==', email): any role.
ExistingUsers(coll, email) ==
  LET Hit(d) == d.email = email IN SelectSeq(coll, Hit)

\* The new document with the id addDoc gave it; signup always writes role 'user'.
NewUser(coll, email, password) ==
  [id |-> Len(coll) + 1, email |-> email, role |-> "user", password |-> password]

\* signup(email, password, ...) up to the getDocs call.
SignupStart(email, password) ==
  /\ signupPc = "idle"
  /\ signupPc' = "query"
  /\ signupArgs' = [email |-> email, password |-> password]
  /\ signupResult' = "none"
  /\ UNCHANGED <<user, users, sessionSlot, authDone, signupRest>>

\* getDocs resolves: the existing-user check, then the addDoc call.
SignupQueryReturn ==
  /\ signupPc = "query"
  /\ IF ExistingUsers(users, signupArgs.email) # <<>>
       THEN /\ signupPc' = "idle"
            /\ signupResult' = "User with this email already exists"
       ELSE /\ signupPc' = "add"
            /\ UNCHANGED signupResult
  /\ UNCHANGED <<user, users, sessionSlot, signupArgs, authDone, signupRest>>

SignupQueryError ==
  /\ signupPc = "query"
  /\ signupPc' = "idle"
  /\ signupResult' = "getDocs rejected"
  /\ UNCHANGED <<user, users, sessionSlot, signupArgs, authDone, signupRest>>

\* addDoc resolves: setUser(userDataWithId) and the setItem call.
SignupAdded ==
  /\ signupPc = "add"
  /\ Len(users) < MaxUsers
  /\ LET new == NewUser(users, signupArgs.email, signupArgs.password)
     IN /\ users' = Append(users, new)
        /\ user' = new
        /\ signupArgs' = [email |-> signupArgs.email, password |-> signupArgs.password,
                          created |-> new]
  /\ signupPc' = "store"
  /\ UNCHANGED <<sessionSlot, signupResult, authDone, signupRest>>

SignupAddError ==
  /\ signupPc = "add"
  /\ signupPc' = "idle"
  /\ signupResult' = "addDoc rejected"
  /\ UNCHANGED <<user, users, sessionSlot, signupArgs, authDone, signupRest>>

\* setItem('userData', ...) resolves.
SignupStored ==
  /\ signupPc = "store"
  /\ signupPc' = "idle"
  /\ signupResult' = "ok"
  /\ sessionSlot' = StringifyUser(signupArgs.created)
  /\ authDone' = [op |-> "signup", user |-> signupArgs.created]
  /\ UNCHANGED <<user, users, signupArgs, signupRest>>

\* setItem rejects: signup rethrows, after addDoc and setUser.
SignupStoreError ==
  /\ signupPc = "store"
  /\ signupPc' = "idle"
  /\ signupResult' = "setItem rejected"
  /\ UNCHANGED <<user, users, sessionSlot, signupArgs, authDone, signupRest>>

\* What a signup on a second device leaves alone: everything of this device.
peerRest == <<user, authLoading, sessionSlot, sessionPc, loginPc, loginArgs, loginResult,
              logoutPc, signupVars, authDone, identityVars, navVars, cartVars, storeVars,
              ckVars, bookings, seatVars, listVars>>

\* signup(email, password, ...) called on a second device, up to getDocs.
PeerSignupStart(email, password) ==
  /\ peerPc = "idle"
  /\ peerPc' = "query"
  /\ peerArgs' = [email |-> email, password |-> password]
  /\ UNCHANGED <<users, peerRest>>

\* Its getDocs resolves: the existing-user check, then the addDoc call.
PeerSignupQueryReturn ==
  /\ peerPc = "query"
  /\ peerPc' = IF ExistingUsers(users, peerArgs.email) # <<>> THEN "idle" ELSE "add"
  /\ UNCHANGED <<users, peerArgs, peerRest>>

\* Its addDoc resolves; setUser and setItem change the second device only.
PeerSignupAdded ==
  /\ peerPc = "add"
  /\ Len(users) < MaxUsers
  /\ users' = Append(users, NewUser(users, peerArgs.email, peerArgs.password))
  /\ peerPc' = "idle"
  /\ UNCHANGED <<peerArgs, peerRest>>

\* Its getDocs or addDoc rejects: signup rethrows.
PeerSignupError ==
  /\ peerPc \in {"query", "add"}
  /\ peerPc' = "idle"
  /\ UNCHANGED <<users, peerArgs, peerRest>>

\* The app is closed and started again while no auth call is running: the
\* provider state is new, the users collection and the session slot are kept.
RestartAuth ==
  /\ sessionPc = "done"
  /\ loginPc = "idle"
  /\ logoutPc = "idle"
  /\ signupPc = "idle"
  /\ user' = Null
  /\ authLoading' = TRUE
  /\ sessionPc' = "pending"
  /\ loginArgs' = Null
  /\ loginResult' = "none"
  /\ signupArgs' = Null
  /\ signupResult' = "none"
  /\ authDone' = IF authDone = Null \/ authDone.op = "restart" THEN authDone
                 ELSE [op |-> "restart", after |-> authDone]
  /\ UNCHANGED <<users, sessionSlot, loginPc, logoutPc, signupPc, authRest>>

\* ------------------------------------------- auth (identity service)
\* The User objects the identity service can hand to the callback.
FirebaseUsers == {[uid |-> 1, email |-> e, displayName |-> "auth name"] : e \in Emails}

\* { uid, email, ...userDoc.data() }
UserFromProfile(fu) == [uid |-> fu.uid, email |-> fu.email, displayName |-> "profile name"]

\* The fallback to the data of the identity service.
UserFromAuth(fu) == [uid |-> fu.uid, email |-> fu.email, displayName |-> fu.displayName]

identityRest == <<users, sessionSlot, sessionPc, loginPc, loginArgs, loginResult, logoutPc,
                  signupVars, authDone, peerVars, navVars, cartVars, storeVars, ckVars,
                  bookings, seatVars, listVars>>

\* The onAuthStateChanged callback is called: without a user it sets the
\* state at once, with a user it calls getDoc and waits.
AuthStateChanged(firebaseUser) ==
  /\ identityPc = "waiting"
  /\ IF firebaseUser = Null
       THEN /\ user' = Null
            /\ authLoading' = FALSE
            /\ identityPc' = "done"
            /\ UNCHANGED identityUser
       ELSE /\ identityPc' = "profile"
            /\ identityUser' = firebaseUser
            /\ UNCHANGED <<user, authLoading>>
  /\ UNCHANGED identityRest

\* getDoc of the 'customers' document resolves.
ProfileRead(exists) ==
  /\ identityPc = "profile"
  /\ user' = IF exists THEN UserFromProfile(identityUser) ELSE UserFromAuth(identityUser)
  /\ authLoading' = FALSE
  /\ identityPc' = "done"
  /\ UNCHANGED <<identityUser, identityRest>>

\* getDoc rejects: the async callback ends there, nothing catches the error.
ProfileReadError ==
  /\ identityPc = "profile"
  /\ identityPc' = "failed"
  /\ UNCHANGED <<user, authLoading, identityUser, identityRest>>

\* ------------------------------------------------------- auth guards
\* Index: if (!loading && user)
IndexRedirects(loading, u) == ~loading /\ u # Null

DashboardRedirects_WhenLoading(loading, u) == u = Null

\* DashboardHome: if (!authLoading && !user)
DashboardRedirects(loading, u) == ~loading /\ u = Null

navRest == <<user, authLoading, users, sessionSlot, sessionPc, loginPc, loginArgs,
             loginResult, logoutPc, signupVars, authDone, peerVars, identityVars, cartVars,
             storeVars, ckVars, bookings, seatVars, listVars>>

\* The effect of Index runs: router.replace('/').
IndexGuard ==
  /\ route = "/auth"
  /\ redirects < MaxRedirects
  /\ IndexRedirects(authLoading, user)
  /\ route' = "/"
  /\ redirects' = redirects + 1
  /\ UNCHANGED navRest

\* The effect of DashboardHome runs: router.replace('/auth').
DashboardGuard ==
  /\ route = "/"
  /\ redirects < MaxRedirects
  /\ DashboardRedirects(authLoading, user)
  /\ route' = "/auth"
  /\ redirects' = redirects + 1
  /\ UNCHANGED navRest

\* --------------------------------------- class list (course details)
Max(a, b) == IF a >= b THEN a ELSE b

\* (courseInfo?.capacity || 20): a capacity of 0 or none gives the default.
CapacityOrDefault(cap) == IF cap = 0 THEN DefaultCapacity ELSE cap

\* Math.max(0, (courseInfo?.capacity || 20) - 0)
AvailableSpotsAtLoad(cap) == Max(0, CapacityOrDefault(cap) - 0)

\* getClassesByCourse: where('courseId', '==', courseId), in date order.
ClassesByCourse(k) ==
  LET OfCourse(c) == CourseOf(c) = k
  IN SelectSeq([c \in 1..NumClasses |-> c], OfCourse)

EnhancedClasses(k, cap) ==
  LET cs == ClassesByCourse(k)
  IN [i \in DOMAIN cs |->
        [id |-> cs[i], courseId |-> k, courseName |-> CourseName(k),
         availableSpots |-> AvailableSpotsAtLoad(cap)]]

isClassFull(availableSpots) == availableSpots <= 0

\* prevClasses.map(c => c.id === classItem.id ? {...c, availableSpots: c.availableSpots - 1} : c)
Decrement(items, classId) ==
  [i \in DOMAIN items |->
     IF items[i].id = classId
       THEN [items[i] EXCEPT !.availableSpots = @ - 1]
       ELSE items[i]]

RemoveAt(q, i) == SubSeq(q, 1, i - 1) \o SubSeq(q, i + 1, Len(q))

seatRest == <<cartVars, storeVars, ckVars, user, authVars, listVars>>

\* getClassesByCourse resolves: the list is enhanced and set.
DetailsLoaded ==
  /\ detailsPc = "loading"
  /\ detailsPc' = "loaded"
  /\ classes' = EnhancedClasses(course.id, course.capacity)
  /\ UNCHANGED <<course, bookingLoading, alertClass, inflight, bookings, seatRest>>

\* getClassesByCourse rejects: an alert, the list stays empty.
DetailsLoadError ==
  /\ detailsPc = "loading"
  /\ detailsPc' = "failed"
  /\ UNCHANGED <<course, classes, bookingLoading, alertClass, inflight, bookings, seatRest>>

\* The book button of item i is pressed (it is enabled) and handleBookClass
\* opens the 'Confirm Booking' alert.
PressBook(i) ==
  /\ detailsPc = "loaded"
  /\ alertClass = Null
  /\ i \in DOMAIN classes
  /\ ~(isClassFull(classes[i].availableSpots) \/ bookingLoading = [id |-> classes[i].id])
  /\ user # Null
  /\ ~(classes[i].availableSpots <= 0)
  /\ alertClass' = classes[i]
  /\ UNCHANGED <<course, detailsPc, classes, bookingLoading, inflight, bookings, seatRest>>

CancelBook ==
  /\ alertClass # Null
  /\ alertClass' = Null
  /\ UNCHANGED <<course, detailsPc, classes, bookingLoading, inflight, bookings, seatRest>>

\* 'Book Now': confirmBooking up to the createBooking call.
ConfirmBooking ==
  /\ alertClass # Null
  /\ user # Null
  /\ Len(inflight) < MaxInflight
  /\ bookingLoading' = [id |-> alertClass.id]
  /\ inflight' = Append(inflight, alertClass)
  /\ alertClass' = Null
  /\ UNCHANGED <<course, detailsPc, classes, bookings, seatRest>>

\* A createBooking call of confirmBooking settles.
BookingSettles(i, outcome) ==
  /\ i \in DOMAIN inflight
  /\ outcome \in Outcomes(bookings)
  /\ bookings' = IF Written(outcome) THEN AddBooking(bookings, user, inflight[i])
                                      ELSE bookings
  /\ classes' = IF outcome = "ok" THEN Decrement(classes, inflight[i].id) ELSE classes
  /\ bookingLoading' = Null
  /\ inflight' = RemoveAt(inflight, i)
  /\ UNCHANGED <<course, detailsPc, alertClass, seatRest>>

\* ---------------------------- list screens (courses, classes, bookings)
ListScreens == {"courses", "classes", "bookings"}

\* What the backend can return for the list.
BackendLists == {[i \in 1..n |-> i] : n \in 0..MaxList}

\* getCourses: getDocs resolves, or it rejects and getCourses logs and rethrows.
GetCoursesOutcomes == {"resolve", "reject"}

\* getUpcomingClassesForDisplay, getUserBookingsForDisplay: as their siblings,
\* a backend failure is logged and rethrown.
ForDisplayOutcomes == {"resolve", "reject"}

ServiceOutcomes(screen) ==
  IF screen = "courses" THEN GetCoursesOutcomes ELSE ForDisplayOutcomes

\* loadBookings returns before the backend call when there is no user.
LoadCallsBackend(screen, u) == ~(screen = "bookings" /\ u = Null)

ListOnFailure_Emptied(list) == <<>>

\* The catch block logs and alerts; it sets no list.
ListOnFailure(list) == list

\* finally: setLoading(false); setRefreshing(false)
FlagOnSettle(flag) == FALSE

listRest == <<cartVars, storeVars, ckVars, bookings, user, authVars, seatVars>>

\* onRefresh: setRefreshing(true), then the load action.
ListRefresh ==
  /\ listScreen \in ListScreens
  /\ ~listLoading
  /\ listLoads < MaxLoads
  /\ listRefreshing' = TRUE
  /\ IF LoadCallsBackend(listScreen, user)
       THEN listLoads' = listLoads + 1 /\ UNCHANGED listLoading
       ELSE listLoading' = FALSE /\ UNCHANGED listLoads
  /\ UNCHANGED <<listScreen, shownList, listAlert, listOutcome, listRest>>

\* The service call of a load resolves: the list is set, finally clears the flags.
ListLoadReturn(data) ==
  /\ listLoads > 0
  /\ "resolve" \in ServiceOutcomes(listScreen)
  /\ shownList' = data
  /\ listLoading' = FlagOnSettle(listLoading)
  /\ listRefreshing' = FlagOnSettle(listRefreshing)
  /\ listLoads' = listLoads - 1
  /\ listOutcome' = "set"
  /\ UNCHANGED <<listScreen, listAlert, listRest>>

\* The service call of a load rejects: catch logs and alerts, finally clears
\* the flags.
ListLoadFail ==
  /\ listLoads > 0
  /\ "reject" \in ServiceOutcomes(listScreen)
  /\ shownList' = ListOnFailure(shownList)
  /\ listAlert' = "Error"
  /\ listLoading' = FlagOnSettle(listLoading)
  /\ listRefreshing' = FlagOnSettle(listRefreshing)
  /\ listLoads' = listLoads - 1
  /\ listOutcome' = "alerted"
  /\ UNCHANGED <<listScreen, listRest>>

\* The alert is dismissed.
ListAlertOk ==
  /\ listAlert # "none"
  /\ listAlert' = "none"
  /\ UNCHANGED <<listScreen, shownList, listLoading, listRefreshing, listLoads, listOutcome,
                 listRest>>

\* ------------------------------------------------------ specifications
\* The carts a previous run of the app can have left in the slot.
RECURSIVE CartsOfLen(_)
CartsOfLen(n) ==
  IF n = 0 THEN {<<>>}
  ELSE {Append(s, NewCartItem(c, t)) :
          s \in {x \in CartsOfLen(n - 1) : TRUE}, c \in ClassIds, t \in Times}

SavedCarts ==
  {s \in UNION {CartsOfLen(n) : n \in 0..MaxCart} : Cardinality(Ids(s)) = Len(s)}

\* One device signs up, the users-collection AuthProvider is the one mounted,
\* and the auth guards are not followed.
AuthExtrasIdle ==
  /\ peerPc = "idle"
  /\ peerArgs = Null
  /\ identityPc = "off"
  /\ identityUser = Null
  /\ route = "none"
  /\ redirects = 0

\* A customer is logged in and no auth call is running.
LoggedIn ==
  /\ AuthExtrasIdle
  /\ user = Customer
  /\ authLoading = FALSE
  /\ users = <<Customer>>
  /\ sessionSlot = StringifyUser(Customer)
  /\ sessionPc = "done"
  /\ loginPc = "idle"
  /\ loginArgs = Null
  /\ loginResult = "none"
  /\ logoutPc = "idle"
  /\ signupPc = "idle"
  /\ signupArgs = Null
  /\ signupResult = "none"
  /\ authDone = Null

\* Nobody is logged in and no auth call is running.
LoggedOut ==
  /\ AuthExtrasIdle
  /\ user = Null
  /\ authLoading = FALSE
  /\ sessionSlot = Null
  /\ sessionPc = "done"
  /\ loginPc = "idle"
  /\ loginArgs = Null
  /\ loginResult = "none"
  /\ logoutPc = "idle"
  /\ signupPc = "idle"
  /\ signupArgs = Null
  /\ signupResult = "none"
  /\ authDone = Null

\* The course-details screen is not open.
NoDetailsScreen ==
  /\ course = Null
  /\ detailsPc = "failed"
  /\ classes = <<>>
  /\ bookingLoading = Null
  /\ alertClass = Null
  /\ inflight = <<>>

\* No list screen is open.
NoListScreen ==
  /\ listScreen = "none"
  /\ shownList = <<>>
  /\ listLoading = FALSE
  /\ listRefreshing = FALSE
  /\ listLoads = 0
  /\ listAlert = "none"
  /\ listOutcome = "none"

CheckoutIdle ==
  /\ checkoutLoading = FALSE
  /\ ckItems = <<>>
  /\ ckUser = Null
  /\ ckIdx = 0
  /\ ckResults = <<>>
  /\ successCount = 0
  /\ failedBookings = <<>>
  /\ ckReport = "none"
  /\ bookingsAtStart = 0
  /\ lostWrites = {}

\* After the first render of CartProvider: both mount effects have run, the
\* getItem of the load and the setItem of the empty list are in flight.
CartMounted ==
  /\ cartItems = <<>>
  /\ renderedCart = <<>>
  /\ cartDirty = FALSE
  /\ lastCall = [op |-> "start", id |-> 0, found |-> FALSE]
  /\ storageUp = TRUE
  /\ savedAtStart = cartSlot
  /\ pendingSaves = {Stringify(<<>>)}
  /\ loadValue = Null
  /\ CheckoutIdle
  /\ bookings = <<>>
  /\ LoggedIn
  /\ NoDetailsScreen
  /\ NoListScreen

Mounted ==
  /\ CartMounted
  /\ loadPc = "pending"

\* An app start over a slot that a previous run left empty or saved a cart to.
InitStart ==
  /\ cartSlot \in {Null} \cup {Stringify(s) : s \in SavedCarts}
  /\ Mounted

NextStart ==
  \/ RenderCart
  \/ \E w \in pendingSaves : SaveComplete(w)
  \/ \E w \in pendingSaves : SaveError(w)
  \/ LoadRead
  \/ LoadApply
  \/ LoadError

SpecStart == InitStart /\ [][NextStart]_vars

\* The first start of the app, with nothing stored yet: the load has found
\* the slot empty and ended, the setItem of the empty list is in flight.
InitCart ==
  /\ cartSlot = Null
  /\ CartMounted
  /\ loadPc = "done"

\* The cart operations with every write completing.
NextSave ==
  \/ \E c \in ClassIds, t \in Times : AddToCart(c, t)
  \/ \E c \in ClassIds : RemoveFromCart(c)
  \/ ClearCart
  \/ RenderCart
  \/ \E w \in pendingSaves : SaveComplete(w)

SpecSave == InitCart /\ [][NextSave]_vars

NextCart ==
  \/ \E c \in ClassIds, t \in Times : AddToCart(c, t)
  \/ \E c \in ClassIds : RemoveFromCart(c)
  \/ ClearCart
  \/ RenderCart
  \/ \E w \in pendingSaves : SaveComplete(w)
  \/ \E w \in pendingSaves : SaveError(w)

SpecCart == InitCart /\ [][NextCart]_vars

\* A start over a saved cart during which the customer adds classes.
NextLoad ==
  \/ \E c \in ClassIds, t \in Times : AddToCart(c, t)
  \/ RenderCart
  \/ \E w \in pendingSaves : SaveComplete(w)
  \/ \E w \in pendingSaves : SaveError(w)
  \/ LoadRead
  \/ LoadApply
  \/ LoadError

SpecLoad == InitStart /\ [][NextLoad]_vars

\* The cart screen of a logged-in customer on a device whose local storage
\* rejects every call: the load has failed and nothing is saved.
InitCheckout ==
  /\ cartItems = <<>>
  /\ renderedCart = <<>>
  /\ cartDirty = FALSE
  /\ lastCall = [op |-> "start", id |-> 0, found |-> FALSE]
  /\ storageUp = FALSE
  /\ cartSlot = Null
  /\ savedAtStart = Null
  /\ pendingSaves = {}
  /\ loadPc = "failed"
  /\ loadValue = Null
  /\ CheckoutIdle
  /\ bookings = <<>>
  /\ LoggedIn
  /\ NoDetailsScreen
  /\ NoListScreen

NextCheckout ==
  \/ \E c \in ClassIds, t \in Times : AddToCart(c, t)
  \/ \E c \in ClassIds : RemoveFromCart(c)
  \/ ClearCart
  \/ RenderCart
  \/ CheckoutStart
  \/ \E o \in {"ok", "fail"} : CheckoutAttempt(o)

SpecCheckout == InitCheckout /\ [][NextCheckout]_vars

\* The same cart screen over a network that can lose the response of a write.
NextRetry ==
  \/ \E c \in ClassIds, t \in Times : AddToCart(c, t)
  \/ \E c \in ClassIds : RemoveFromCart(c)
  \/ ClearCart
  \/ RenderCart
  \/ CheckoutStart
  \/ \E o \in {"ok", "fail", "lost"} : CheckoutAttempt(o)

SpecRetry == InitCheckout /\ [][NextRetry]_vars

\* A start over a saved cart has settled: the cart is loaded, rendered and
\* saved, and the customer is logged in.
InitLogout ==
  /\ cartItems \in SavedCarts
  /\ renderedCart = cartItems
  /\ cartDirty = FALSE
  /\ lastCall = [op |-> "start", id |-> 0, found |-> FALSE]
  /\ storageUp = TRUE
  /\ cartSlot = Stringify(cartItems)
  /\ savedAtStart = cartSlot
  /\ pendingSaves = {}
  /\ loadPc = "done"
  /\ loadValue = Null
  /\ CheckoutIdle
  /\ bookings = <<>>
  /\ LoggedIn
  /\ NoDetailsScreen
  /\ NoListScreen

\* The cart screen of a customer who can log out while a checkout runs.
NextLogout ==
  \/ RenderCart
  \/ \E w \in pendingSaves : SaveComplete(w)
  \/ \E w \in pendingSaves : SaveError(w)
  \/ CheckoutStart
  \/ CheckoutRefused
  \/ \E o \in {"ok", "fail"} : CheckoutAttempt(o)
  \/ LogoutStart
  \/ LogoutRemoved
  \/ LogoutError

SpecLogout == InitLogout /\ [][NextLogout]_vars

\* A booking another customer made earlier.
OtherBooking(c, st) ==
  [customerId |-> 0, courseId |-> CourseOf(c), courseName |-> CourseName(CourseOf(c)),
   classId |-> c, status |-> st]

RECURSIVE BookingsOfLen(_)
BookingsOfLen(n) ==
  IF n = 0 THEN {<<>>}
  ELSE {Append(s, OtherBooking(c, st)) :
          s \in BookingsOfLen(n - 1), c \in ClassIds, st \in {"confirmed", "cancelled"}}

InitialBookings == UNION {BookingsOfLen(n) : n \in 0..MaxPreBookings}

CartIdle ==
  /\ cartItems = <<>>
  /\ renderedCart = <<>>
  /\ cartDirty = FALSE
  /\ lastCall = [op |-> "start", id |-> 0, found |-> FALSE]
  /\ storageUp = FALSE
  /\ cartSlot = Null
  /\ savedAtStart = Null
  /\ pendingSaves = {}
  /\ loadPc = "failed"
  /\ loadValue = Null
  /\ CheckoutIdle

\* The course-details screen of course 1 has mounted for a logged-in customer;
\* other customers may have booked already.
InitSeats ==
  /\ CartIdle
  /\ LoggedIn
  /\ bookings \in InitialBookings
  /\ course \in {[id |-> 1, capacity |-> cap] : cap \in 0..MaxCapacity}
  /\ detailsPc = "loading"
  /\ classes = <<>>
  /\ bookingLoading = Null
  /\ alertClass = Null
  /\ inflight = <<>>
  /\ NoListScreen

NextSeats ==
  \/ DetailsLoaded
  \/ DetailsLoadError
  \/ \E i \in DOMAIN classes : PressBook(i)
  \/ CancelBook
  \/ ConfirmBooking
  \/ \E i \in DOMAIN inflight, o \in {"ok", "fail"} : BookingSettles(i, o)

SpecSeats == InitSeats /\ [][NextSeats]_vars

\* The documents the users collection can hold.
RECURSIVE UsersOfLen(_)
UsersOfLen(n) ==
  IF n = 0 THEN {<<>>}
  ELSE {Append(s, [id |-> n, email |-> e, role |-> r, password |-> pw]) :
          s \in UsersOfLen(n - 1), e \in Emails, r \in Roles, pw \in Passwords}

InitialUsers == UNION {UsersOfLen(n) : n \in 0..MaxUsers}

\* AuthProvider has mounted: checkUserSession is reading the session slot,
\* which is empty or holds the user of an earlier login.
AuthStarting ==
  /\ CartIdle
  /\ NoDetailsScreen
  /\ NoListScreen
  /\ bookings = <<>>
  /\ sessionSlot \in {Null} \cup {StringifyUser(users[i]) :
                                   i \in {j \in DOMAIN users : users[j].role = "user"}}
  /\ user = Null
  /\ authLoading = TRUE
  /\ sessionPc = "pending"
  /\ loginPc = "idle"
  /\ loginArgs = Null
  /\ loginResult = "none"
  /\ logoutPc = "idle"
  /\ signupPc = "idle"
  /\ signupArgs = Null
  /\ signupResult = "none"
  /\ authDone = Null

AuthMounted ==
  /\ AuthStarting
  /\ AuthExtrasIdle

InitAuth ==
  /\ users \in InitialUsers
  /\ AuthMounted

NextAuth ==
  \/ SessionCheck
  \/ SessionCheckError
  \/ \E e \in Emails, pw \in Passwords : LoginStart(e, pw)
  \/ LoginQueryReturn
  \/ LoginQueryError
  \/ LoginStored
  \/ LoginStoreError
  \/ LogoutStart
  \/ LogoutRemoved
  \/ LogoutError

SpecAuth == InitAuth /\ [][NextAuth]_vars

\* Login, signup, logout and restarts of the app.
NextSession ==
  \/ SessionCheck
  \/ SessionCheckError
  \/ \E e \in Emails, pw \in Passwords : LoginStart(e, pw)
  \/ LoginQueryReturn
  \/ LoginQueryError
  \/ LoginStored
  \/ LoginStoreError
  \/ LogoutStart
  \/ LogoutRemoved
  \/ LogoutError
  \/ \E e \in Emails, pw \in Passwords : SignupStart(e, pw)
  \/ SignupQueryReturn
  \/ SignupQueryError
  \/ SignupAdded
  \/ SignupAddError
  \/ SignupStored
  \/ SignupStoreError
  \/ RestartAuth

\* The users collection has room for one more document.
InitSession ==
  /\ users \in UNION {UsersOfLen(n) : n \in 0..(MaxUsers - 1)}
  /\ AuthMounted

SpecSession == InitSession /\ [][NextSession]_vars

\* No two documents of the collection have the same email.
UniqueEmails(coll) ==
  \A i, j \in DOMAIN coll : coll[i].email = coll[j].email => i = j

\* A start over a users collection that holds one document per email.
InitSignup ==
  /\ users \in {s \in InitialUsers : UniqueEmails(s)}
  /\ AuthMounted

\* Signups on this device and on a second one.
NextSignup ==
  \/ SessionCheck
  \/ SessionCheckError
  \/ \E e \in Emails, pw \in Passwords : SignupStart(e, pw)
  \/ SignupQueryReturn
  \/ SignupQueryError
  \/ SignupAdded
  \/ SignupAddError
  \/ SignupStored
  \/ SignupStoreError
  \/ \E e \in Emails, pw \in Passwords : PeerSignupStart(e, pw)
  \/ PeerSignupQueryReturn
  \/ PeerSignupAdded
  \/ PeerSignupError

SpecSignup == InitSignup /\ [][NextSignup]_vars

\* The identity-service AuthProvider has mounted and waits for the callback.
InitIdentity ==
  /\ CartIdle
  /\ NoDetailsScreen
  /\ NoListScreen
  /\ bookings = <<>>
  /\ users = <<>>
  /\ sessionSlot = Null
  /\ user = Null
  /\ authLoading = TRUE
  /\ sessionPc = "off"
  /\ loginPc = "idle"
  /\ loginArgs = Null
  /\ loginResult = "none"
  /\ logoutPc = "idle"
  /\ signupPc = "idle"
  /\ signupArgs = Null
  /\ signupResult = "none"
  /\ authDone = Null
  /\ peerPc = "idle"
  /\ peerArgs = Null
  /\ identityPc = "waiting"
  /\ identityUser = Null
  /\ route = "none"
  /\ redirects = 0

\* Either AuthProvider starts.
InitLoading == InitAuth \/ InitIdentity

NextLoading ==
  \/ SessionCheck
  \/ SessionCheckError
  \/ \E fu \in {Null} \cup FirebaseUsers : AuthStateChanged(fu)
  \/ \E exists \in BOOLEAN : ProfileRead(exists)
  \/ ProfileReadError

\* Every call the provider waits for settles, and the identity service calls
\* the callback.
SpecLoading ==
  /\ InitLoading
  /\ [][NextLoading]_vars
  /\ WF_vars(SessionCheck \/ SessionCheckError)
  /\ WF_vars(\E fu \in {Null} \cup FirebaseUsers : AuthStateChanged(fu))
  /\ WF_vars((\E exists \in BOOLEAN : ProfileRead(exists)) \/ ProfileReadError)

\* The app starts on the landing screen or on the dashboard while the
\* users-collection AuthProvider reads the session slot.
InitGuards ==
  /\ users \in InitialUsers
  /\ AuthStarting
  /\ peerPc = "idle"
  /\ peerArgs = Null
  /\ identityPc = "off"
  /\ identityUser = Null
  /\ route \in {"/auth", "/"}
  /\ redirects = 0

NextGuards ==
  \/ SessionCheck
  \/ SessionCheckError
  \/ IndexGuard
  \/ DashboardGuard

SpecGuards == InitGuards /\ [][NextGuards]_vars

\* A list screen has mounted, with or without a session user: its mount effect
\* has called the load action.
InitLists ==
  /\ CartIdle
  /\ NoDetailsScreen
  /\ bookings = <<>>
  /\ LoggedIn \/ (users = <<Customer>> /\ LoggedOut)
  /\ listScreen \in ListScreens
  /\ shownList = <<>>
  /\ listLoading = LoadCallsBackend(listScreen, user)
  /\ listRefreshing = FALSE
  /\ listLoads = IF LoadCallsBackend(listScreen, user) THEN 1 ELSE 0
  /\ listAlert = "none"
  /\ listOutcome = "none"

NextLists ==
  \/ ListRefresh
  \/ \E data \in BackendLists : ListLoadReturn(data)
  \/ ListLoadFail
  \/ ListAlertOk

SpecLists == InitLists /\ [][NextLists]_vars

\* ================================================================ claims
\* The bookings the loop has created so far, in the order of the captured list.
RECURSIVE BookedBy(_, _, _)
BookedBy(customer, items, results) ==
  IF results = <<>> \/ items = <<>> THEN <<>>
  ELSE IF Head(results) = "ok"
    THEN <<BookingDoc(customer, Head(items).classData)>>
           \o BookedBy(customer, Tail(items), Tail(results))
    ELSE BookedBy(customer, Tail(items), Tail(results))

\* The step in which a checkout ends.
CheckoutEnds == ckIdx >= 1 /\ ckIdx' = 0

\* The items of the captured list whose createBooking had the given outcome.
ItemsWith(outcome, results) ==
  {ckItems[i] : i \in {j \in DOMAIN ckItems \cap DOMAIN results : results[j] = outcome}}

\* C1: when a checkout of a cart of different class instances ends, every item
\* whose booking succeeded has left the cart and every item whose booking
\* failed is still in it, also when two of the class instances carry the same
\* course name.
C1_SucceededItemsLeaveCart ==
  [][(CheckoutEnds /\ Cardinality(Ids(ckItems)) = Len(ckItems)) =>
       /\ \A x \in ItemsWith("ok", ckResults') : x \notin Range(cartItems')
       /\ \A x \in ItemsWith("fail", ckResults') :
            x \in Range(cartItems) => x \in Range(cartItems')]_vars

\* C2: the loop attempts every captured item exactly once and in order, goes
\* on after a failure, and the bookings collection is what it was when the
\* checkout started followed by one booking per succeeded item: N - M more
\* when the checkout has ended.
C2_OneAttemptPerItemNoRollback ==
  /\ Len(ckResults) <= Len(ckItems)
  /\ ckIdx >= 1 => ckIdx = Len(ckResults) + 1
  /\ (ckIdx = 0 /\ ckReport # "none") => Len(ckResults) = Len(ckItems)
  /\ successCount + Len(failedBookings) = Len(ckResults)
  /\ ckUser # Null =>
       /\ bookingsAtStart <= Len(bookings)
       /\ bookings = SubSeq(bookings, 1, bookingsAtStart)
                       \o BookedBy(ckUser, ckItems, ckResults)

C2_Witness ==
  /\ ckIdx = 0
  /\ ckResults = <<"fail", "ok">>
  /\ Len(bookings) = bookingsAtStart + 1
  /\ bookingsAtStart = 1

\* C3: the step that ends a checkout leaves every item whose booking failed in
\* the cart, in place and with id, class data and addedAt as they were.
C3_FailedItemsStay ==
  [][CheckoutEnds =>
       LET Failed(x) == x \in ItemsWith("fail", ckResults')
       IN SelectSeq(cartItems', Failed) = SelectSeq(cartItems, Failed)]_vars

C3_Witness ==
  /\ ckIdx = 0
  /\ ckReport = "Partial Success"
  /\ Len(cartItems) < Len(ckItems)
  /\ \E i \in DOMAIN ckItems : ckResults[i] = "fail" /\ ckItems[i] \in Range(cartItems)

C5_UniqueIds ==
  \A i, j \in DOMAIN cartItems : i # j => cartItems[i].id # cartItems[j].id

\* The ids and display fields of a cart list.
Shown(items) == {[id |-> items[i].id, classData |-> items[i].classData] : i \in DOMAIN items}

\* C6: once the start-up load has read the slot and applied it, the cart shows
\* the items that were saved before the app started.
C6_RoundTrip ==
  loadPc = "done" =>
    Shown(cartItems) = IF savedAtStart = Null THEN {} ELSE Shown(ParseCart(savedAtStart))

\* No users document has this email, role 'user' and this password.
Mismatch(coll, email, password) ==
  ~\E i \in DOMAIN coll :
     coll[i].email = email /\ coll[i].role = "user" /\ coll[i].password = password

\* C7: a login with mismatched credentials never reaches the session write,
\* and the step in which its lookup returns ends the call in an error with the
\* session user and the session slot as they were.
C7_MismatchedLoginFails ==
  [][/\ loginPc = "store" => ~Mismatch(users, loginArgs.email, loginArgs.password)
     /\ (/\ loginPc = "query"
         /\ loginPc' # "query"
         /\ Mismatch(users, loginArgs.email, loginArgs.password))
        => /\ loginPc' = "idle"
           /\ loginResult' \notin {"none", "ok"}
           /\ user' = user
           /\ sessionSlot' = sessionSlot]_vars

C7_Witness ==
  /\ loginPc = "idle"
  /\ loginResult = "Invalid credentials"
  /\ Mismatch(users, loginArgs.email, loginArgs.password)
  /\ user = Null
  /\ sessionSlot = Null

\* The bookings with status 'confirmed' that reference a class.
ConfirmedCount(coll, c) ==
  Cardinality({i \in DOMAIN coll : coll[i].classId = c /\ coll[i].status = "confirmed"})

\* C8: the available seats of every class of the list are never negative.
C8_SeatsNeverNegative ==
  \A i \in DOMAIN classes : classes[i].availableSpots >= 0

\* C9: the available seats the load computes for a class of a course with a
\* capacity are max(0, capacity - confirmedCount).
C9_SeatsAreCapacityMinusConfirmed ==
  [][(detailsPc = "loading" /\ detailsPc' = "loaded" /\ course.capacity > 0) =>
       \A i \in DOMAIN classes' :
         classes'[i].availableSpots =
           Max(0, course.capacity - ConfirmedCount(bookings, classes'[i].id))]_vars

\* C10: createBooking makes no seat check: every call in flight was made with
\* spare seats observed, and every call that resolves adds one confirmed
\* booking of its class, however many the class already has.
C10_BookingIgnoresSeatCount ==
  [][/\ \A i \in DOMAIN inflight : inflight[i].availableSpots > 0
     /\ \A i \in DOMAIN inflight :
          BookingSettles(i, "ok") =>
            ConfirmedCount(bookings', inflight[i].id)
              = ConfirmedCount(bookings, inflight[i].id) + 1]_vars

\* Two calls for the same class both observed the last seat and both resolved.
C10_Witness ==
  \E i \in DOMAIN classes :
    /\ ConfirmedCount(bookings, classes[i].id) > CapacityOrDefault(course.capacity)
    /\ classes[i].availableSpots < 0
    /\ \A j \in DOMAIN bookings : bookings[j].customerId = Customer.id

\* C11: a step never changes or removes a booking that is in the collection,
\* and every booking it adds is a 'confirmed' booking of the session user.
C11_BookingsAppendOnly ==
  [][/\ Len(bookings') >= Len(bookings)
     /\ SubSeq(bookings', 1, Len(bookings)) = bookings
     /\ \A i \in (Len(bookings) + 1)..Len(bookings') :
          bookings'[i].status = "confirmed" /\ bookings'[i].customerId = user.id]_vars

\* The customer has booked a class after another customer's cancelled booking
\* of it.
C11_Witness ==
  /\ Len(bookings) = 2
  /\ bookings[1].customerId # Customer.id
  /\ bookings[1].status = "cancelled"
  /\ bookings[2].classId = bookings[1].classId
  /\ bookings[2].customerId = Customer.id
  /\ bookings[2].status = "confirmed"
  /\ inflight = <<>>

\* C12: createBooking carries no idempotency key: every call whose document
\* reaches the backend appends a new booking whatever the collection holds, and
\* a write whose response is lost is counted as a failure that keeps its item
\* in the cart for a retry.
C12_RetryBooksAgain ==
  [][/\ \A o \in {"ok", "lost"} :
          CheckoutAttempt(o) =>
            bookings' = Append(bookings, BookingDoc(ckUser, ckItems[ckIdx].classData))
     /\ CheckoutAttempt("lost") =>
          /\ successCount' = successCount
          /\ failedBookings' = Append(failedBookings, ckItems[ckIdx].classData.courseName)
          /\ ckItems[ckIdx] \in Range(cartItems) => ckItems[ckIdx] \in Range(cartItems')]_vars

\* A checkout of one item lost its response, the retry succeeded: two confirmed
\* bookings of the same customer and class.
C12_Witness ==
  /\ ckIdx = 0
  /\ Len(ckItems) = 1
  /\ ckResults = <<"ok">>
  /\ BookingDoc(ckUser, ckItems[1].classData) \in lostWrites
  /\ Len(bookings) = 2
  /\ bookings[1] = bookings[2]
  /\ bookings[1] = BookingDoc(Customer, ckItems[1].classData)
  /\ bookings[1].status = "confirmed"

\* The last auth call that completed, seen through a restart.
LastAuth == IF authDone # Null /\ authDone.op = "restart" THEN authDone.after ELSE authDone

\* C13: after a login or signup that completed the session slot holds the
\* serialized user, document id included, and the session check of a restart
\* makes that user the session user; after a logout that completed the slot is
\* empty, and a restart leaves the session user empty: its session check
\* restores nothing.
C13_SessionRoundTrip ==
  /\ [](authDone # Null =>
          IF LastAuth.op = "logout"
            THEN /\ sessionSlot = Null
                 /\ (authDone.op = "restart" /\ loginArgs = Null /\ signupArgs = Null)
                      => user = Null
            ELSE /\ sessionSlot # Null
                 /\ ParseUser(sessionSlot) = LastAuth.user
                 /\ LastAuth.user \in Range(users))
  /\ [][(SessionCheck /\ authDone # Null /\ authDone.op = "restart") =>
          IF LastAuth.op = "logout" THEN user' = user ELSE user' = LastAuth.user]_vars

\* A signup completed, the app was restarted and the session check has
\* restored the new user.
C13_Witness ==
  /\ authDone # Null
  /\ authDone.op = "restart"
  /\ authDone.after.op = "signup"
  /\ sessionPc = "done"
  /\ loginArgs = Null
  /\ user = authDone.after.user
  /\ user.id = Len(users)

\* C14: once every write of the save effect has completed and the latest
\* list is rendered, the cart slot holds the in-memory cart list.
C14_SlotMirrorsCart ==
  (pendingSaves = {} /\ ~cartDirty) => cartSlot = Stringify(cartItems)

\* C15: an item of the cart is still in the cart after a step, unless the
\* step is removeFromCart of its id, clearCart or the end of a checkout.
C15_ItemsStayUntilRemoved ==
  [][\A x \in Range(cartItems) :
       \/ x \in Range(cartItems')
       \/ RemoveFromCart(x.id)
       \/ ClearCart
       \/ CheckoutEnds]_vars

\* C16: a storage call that fails leaves the in-memory cart and the session
\* user as they were, and the cart or auth operation that made it does not end
\* in an error.
C16_StorageFailuresStaySilent ==
  [][/\ ((\E w \in pendingSaves : SaveError(w)) \/ LoadError \/ SessionCheckError)
          => (cartItems' = cartItems /\ user' = user)
     /\ (LoginStoreError \/ SignupStoreError)
          => /\ cartItems' = cartItems
             /\ user' = user
             /\ loginResult' \in {"none", "ok"}
             /\ signupResult' \in {"none", "ok"}]_vars

\* C17: the id of every item of the cart, and of every item of a list held
\* for the load or a save, is the id of the class in its classData.
C17_ItemIdIsClassId ==
  /\ \A i \in DOMAIN cartItems : cartItems[i].id = cartItems[i].classData.id
  /\ \A i \in DOMAIN renderedCart : renderedCart[i].id = renderedCart[i].classData.id
  /\ cartSlot # Null =>
       \A i \in DOMAIN cartSlot.json : cartSlot.json[i].id = cartSlot.json[i].classData.id

\* The cart holds an item restored from the slot and an item added after it.
C17_Witness ==
  /\ loadPc = "done"
  /\ savedAtStart # Null
  /\ Len(cartItems) = 2
  /\ cartItems[1] \in Range(ParseCart(savedAtStart))
  /\ cartItems[2] \notin Range(ParseCart(savedAtStart))
  /\ lastCall.op = "addToCart"
  /\ ~lastCall.found

\* The course names of the items whose createBooking failed, in loop order.
RECURSIVE FailedLabels(_, _)
FailedLabels(items, results) ==
  IF results = <<>> \/ items = <<>> THEN <<>>
  ELSE IF Head(results) = "ok"
    THEN FailedLabels(Tail(items), Tail(results))
    ELSE <<Head(items).classData.courseName>> \o FailedLabels(Tail(items), Tail(results))

\* C18: when a checkout has ended, the success count is the number of items
\* whose booking succeeded, the failure labels are the course names of the
\* failed items, one each, the two add up to the number of items, and the
\* report is 'Success' exactly when all succeeded, 'Partial Success' exactly
\* when some but not all did, 'Booking Failed' exactly when none did.
C18_ReportMatchesAttempts ==
  (ckIdx = 0 /\ ckReport # "none") =>
    LET n == Len(ckItems)
        oks == Cardinality({i \in DOMAIN ckResults : ckResults[i] = "ok"})
    IN /\ Len(ckResults) = n
       /\ successCount = oks
       /\ failedBookings = FailedLabels(ckItems, ckResults)
       /\ successCount + Len(failedBookings) = n
       /\ ckReport \in {"Success", "Partial Success", "Booking Failed"}
       /\ ckReport = "Success" <=> oks = n
       /\ ckReport = "Partial Success" <=> (0 < oks /\ oks < n)
       /\ ckReport = "Booking Failed" <=> oks = 0

C18_Witness ==
  /\ ckIdx = 0
  /\ ckReport = "Partial Success"
  /\ ckResults = <<"ok", "fail">>
  /\ successCount = 1
  /\ failedBookings = <<ckItems[2].classData.courseName>>
  /\ ckItems[1].classData.courseName # ckItems[2].classData.courseName

C20_LoginIffMatchingUser ==
  [][LoginQueryReturn =>
       /\ (loginPc' = "store") <=> ~Mismatch(users, loginArgs.email, loginArgs.password)
       /\ (loginPc' = "store") =>
            /\ user' \in Range(users)
            /\ user'.email = loginArgs.email
            /\ user'.role = "user"
            /\ user'.password = loginArgs.password]_vars

\* The list without the items of an id, item by item from the front.
RECURSIVE Without(_, _)
Without(items, classId) ==
  IF items = <<>> THEN <<>>
  ELSE IF Head(items).id = classId
    THEN Without(Tail(items), classId)
    ELSE <<Head(items)>> \o Without(Tail(items), classId)

\* C21: removeFromCart(id) leaves the cart without the items of that id, the
\* other items as they were and in their order; with no item of that id the
\* cart is unchanged.
C21_RemoveTakesOnlyThatId ==
  [][\A c \in ClassIds :
       RemoveFromCart(c) =>
         /\ cartItems' = Without(cartItems, c)
         /\ c \notin Ids(cartItems')
         /\ \A x \in Range(cartItems) : x.id # c => x \in Range(cartItems')
         /\ c \notin Ids(cartItems) => cartItems' = cartItems]_vars

\* The first of two rendered items was removed, the second is left.
C21_Witness ==
  /\ lastCall.op = "removeFromCart"
  /\ Len(renderedCart) = 2
  /\ renderedCart[1].id = lastCall.id
  /\ renderedCart[2].id # lastCall.id
  /\ cartItems = <<renderedCart[2]>>

\* C22: the step that ends a checkout takes out of the cart only items whose
\* booking that checkout created; an item that is not among the attempted
\* ones is still in the cart.
C22_CheckoutRemovesOnlyBooked ==
  [][CheckoutEnds =>
       \A x \in Range(cartItems) :
         x \notin Range(cartItems') => x \in ItemsWith("ok", ckResults')]_vars

\* C23: a checkout refused for want of a user or of items creates no booking
\* and leaves the cart as it is, and no booking is created while a logout has
\* completed and no user is logged in.
C23_NoBookingWithoutUser ==
  [][/\ CheckoutRefused => (bookings' = bookings /\ cartItems' = cartItems)
     /\ (user = Null /\ authDone = [op |-> "logout"]) => bookings' = bookings]_vars

\* The classes with a createBooking call in flight.
InflightIds == {inflight[j].id : j \in DOMAIN inflight}

\* C24: while a booking of a class is in flight its book button cannot be
\* pressed and no second booking of the class is sent.
C24_NoSecondBookingInFlight ==
  [][/\ \A i \in DOMAIN classes : PressBook(i) => classes[i].id \notin InflightIds
     /\ ConfirmBooking => alertClass.id \notin InflightIds]_vars

\* C25: when confirmBooking sends the booking of a class, the seats the
\* screen holds for that class are more than zero.
C25_SeatsLeftWhenSent ==
  [][ConfirmBooking =>
       \A i \in DOMAIN classes :
         classes[i].id = alertClass.id => classes[i].availableSpots > 0]_vars

\* C26: once the session check has settled and no login, signup or logout is
\* in progress, the session user in memory and the session slot agree: both
\* empty, or the slot holds the stored form of the user in memory.
C26_UserAndSlotAgree ==
  (sessionPc = "done" /\ loginPc = "idle" /\ signupPc = "idle" /\ logoutPc = "idle")
    => IF sessionSlot = Null THEN user = Null
       ELSE user # Null /\ ParseUser(sessionSlot) = user

\* C27: whatever signups ran, on this device or on another, the users
\* collection holds at most one document per email.
C27_OneDocumentPerEmail ==
  \A i, j \in DOMAIN users : users[i].email = users[j].email => i = j

\* C28: after the auth provider starts, loading becomes false at some point
\* and is false from then on.
C28_LoadingEndsAndStays == <>[](~authLoading)

\* C29: the landing screen redirects to the dashboard only when loading is
\* false and a user is set, the dashboard redirects to the auth screen only
\* when loading is false and no user is set, the two are never enabled
\* together, and with the session state the start found there is at most one
\* redirect.
C29_GuardsSettle ==
  [][/\ IndexGuard => (~authLoading /\ user # Null /\ route' = "/")
     /\ DashboardGuard => (~authLoading /\ user = Null /\ route' = "/auth")
     /\ ~(IndexRedirects(authLoading, user) /\ DashboardRedirects(authLoading, user))
     /\ redirects' <= 1]_vars

\* The landing screen has sent a restored session to the dashboard, and the
\* dashboard stays.
C29_Witness ==
  /\ redirects = 1
  /\ route = "/"
  /\ user # Null
  /\ ~authLoading
  /\ ~DashboardRedirects(authLoading, user)

\* C30: when a checkout ends, with whatever results, checkoutLoading is false
\* again; it is true as long as booking attempts are being made; and while it
\* is true no checkout starts from the cart screen.
C30_LoadingBracketsCheckout ==
  [][/\ CheckoutEnds => ~checkoutLoading'
     /\ ckIdx' >= 1 => checkoutLoading'
     /\ CheckoutStart => ~checkoutLoading]_vars

\* A checkout of two items, one booked and one failed, has ended.
C30_Witness ==
  /\ ckIdx = 0
  /\ ckReport = "Partial Success"
  /\ ItemsWith("ok", ckResults) # {}
  /\ ItemsWith("fail", ckResults) # {}
  /\ ~checkoutLoading

====
